---- MODULE Spec2Model ----
(***************************************************************************)
(* Model of the cloze-markup engine of anki-cli (src/src/llm.rs).          *)
(*                                                                         *)
(* A Rust `String` is modelled as a sequence of Unicode scalar values.     *)
(* Each scalar value is a TLA+ string token: an ASCII character stands for *)
(* itself, "KELVIN" stands for U+212A KELVIN SIGN (3 bytes in UTF-8, lower *)
(* case U+006B "k", 1 byte) and "EACUTE"/"eacute" stand for U+00C9/U+00E9  *)
(* (2 bytes each).  Byte offsets, as returned by `str::find` and as used   *)
(* by slicing, are computed from the UTF-8 width of the scalar values.     *)
(***************************************************************************)
EXTENDS Integers, Sequences, FiniteSets, TLC

\* ------------------------------------------------------------------ bounds
MaxSize == 4
MaxRaw == 6
MaxScan == 5
MaxWords == 3

\* ------------------------------------------------------- Option<String>
None == [tag |-> "None", val |-> <<>>]
Some(s) == [tag |-> "Some", val |-> s]
\* a slice at a byte offset that is no character boundary (or is out of
\* range) panics: the call does not return
Panic == [tag |-> "Panic", val |-> <<>>]

\* ------------------------------------------------------------ characters
\* char::len_utf8
len_utf8(ch) ==
    CASE ch = "KELVIN" -> 3
      [] ch \in {"EACUTE", "eacute"} -> 2
      [] OTHER -> 1

\* char::to_lowercase, as used by str::to_lowercase
char_to_lowercase(ch) ==
    CASE ch = "A" -> "a"
      [] ch = "C" -> "c"
      [] ch = "KELVIN" -> "k"
      [] ch = "EACUTE" -> "eacute"
      [] OTHER -> ch

\* char::is_ascii_digit
is_ascii_digit(ch) == ch \in {"0", "1", "2", "3", "4", "5", "6", "7", "8", "9"}

\* char::is_whitespace
is_whitespace(ch) == ch \in {" ", "\n", "\r", "\t"}

\* --------------------------------------------------------------- strings
\* str::to_lowercase
to_lowercase(s) == [i \in 1..Len(s) |-> char_to_lowercase(s[i])]

RECURSIVE ByteLen(_)
\* str::len: the length in bytes
ByteLen(s) == IF s = <<>> THEN 0 ELSE len_utf8(Head(s)) + ByteLen(Tail(s))

\* byte offset of the character at (1-based) index i; i = Len(s)+1 is the end
ByteOffset(s, i) == ByteLen(SubSeq(s, 1, i - 1))

\* str::is_char_boundary
is_char_boundary(s, b) == \E i \in 1..(Len(s) + 1) : ByteOffset(s, i) = b

\* the (1-based) character index that starts at byte offset b
CharIndex(s, b) == CHOOSE i \in 1..(Len(s) + 1) : ByteOffset(s, i) = b

\* whether pat occurs in s at character index i
MatchesAt(s, pat, i) ==
    /\ i + Len(pat) - 1 <= Len(s)
    /\ \A j \in 1..Len(pat) : s[i + j - 1] = pat[j]

\* str::contains
contains(s, pat) == \E i \in 1..(Len(s) + 1) : MatchesAt(s, pat, i)

\* str::find with a &str pattern: the byte offset of the first match, or -1
\* for None.  UTF-8 is self-synchronising, so a byte-wise match of a valid
\* pattern starts at a character boundary and equals a match of characters.
find(s, pat) ==
    IF contains(s, pat)
    THEN LET i == CHOOSE k \in 1..(Len(s) + 1) :
                     /\ MatchesAt(s, pat, k)
                     /\ \A m \in 1..(k - 1) : ~MatchesAt(s, pat, m)
         IN ByteOffset(s, i)
    ELSE -1

RECURSIVE trim_start(_)
trim_start(s) ==
    IF s # <<>> /\ is_whitespace(Head(s)) THEN trim_start(Tail(s)) ELSE s

RECURSIVE trim_end(_)
trim_end(s) ==
    IF s # <<>> /\ is_whitespace(s[Len(s)])
    THEN trim_end(SubSeq(s, 1, Len(s) - 1))
    ELSE s

\* str::trim
trim(s) == trim_end(trim_start(s))

\* &s[a..b] with byte offsets; the slice panics unless a <= b <= len and both
\* are character boundaries
SliceOk(s, a, b) ==
    /\ 0 <= a /\ a <= b /\ b <= ByteLen(s)
    /\ is_char_boundary(s, a) /\ is_char_boundary(s, b)

Slice(s, a, b) == SubSeq(s, CharIndex(s, a), CharIndex(s, b) - 1)

\* ------------------------------------------------ the cloze marker text
ClozeMarker == <<"{", "{", "c", "1", ":", ":">>
ClozeClose == <<"}", "}">>
HintSep == <<":", ":">>

\* ------------------------------------------ strip_existing_cloze_markup
\* llm.rs 237-250: at a '{' of the sentence, the run of '{' is followed by
\* 'c' or 'C', any number of ASCII digits and "::".  Indices are 1-based
\* here (0-based in the source), so `x < chars.len()` reads `x <= Len`.
RECURSIVE SkipBraces(_, _)
SkipBraces(chars, lookahead) ==
    IF lookahead <= Len(chars) /\ chars[lookahead] = "{"
    THEN SkipBraces(chars, lookahead + 1)
    ELSE lookahead

RECURSIVE SkipDigits(_, _)
SkipDigits(chars, after_prefix) ==
    IF after_prefix <= Len(chars) /\ is_ascii_digit(chars[after_prefix])
    THEN SkipDigits(chars, after_prefix + 1)
    ELSE after_prefix

\* as ClozePrefixAt, but the index of the cloze needs at least one digit
ClozePrefixAt_NeedsDigit(chars, index) ==
    /\ chars[index] = "{"
    /\ LET lookahead == SkipBraces(chars, index)
       IN /\ lookahead <= Len(chars)
          /\ chars[lookahead] \in {"c", "C"}
          /\ LET after_prefix == SkipDigits(chars, lookahead + 1)
             IN /\ after_prefix > lookahead + 1
                /\ after_prefix + 1 <= Len(chars)
                /\ chars[after_prefix] = ":"
                /\ chars[after_prefix + 1] = ":"

\* llm.rs 236-251: a '{' run, then 'c' or 'C', digits, and "::"
ClozePrefixAt(chars, index) ==
    /\ chars[index] = "{"
    /\ LET lookahead == SkipBraces(chars, index)
       IN /\ lookahead <= Len(chars)
          /\ chars[lookahead] \in {"c", "C"}
          /\ LET after_prefix == SkipDigits(chars, lookahead + 1)
             IN /\ after_prefix + 1 <= Len(chars)
                /\ chars[after_prefix] = ":"
                /\ chars[after_prefix + 1] = ":"

RECURSIVE ScanDepth_FirstClose(_, _, _)
\* as ScanDepth, but the first '}' ends the span whatever the depth
ScanDepth_FirstClose(chars, cursor, depth) ==
    IF cursor > Len(chars)
    THEN [depth |-> depth, cursor |-> cursor]
    ELSE IF chars[cursor] = "}"
         THEN [depth |-> 0, cursor |-> cursor + 1]
         ELSE ScanDepth_FirstClose(chars, cursor + 1,
                  depth + (IF chars[cursor] = "{" THEN 1 ELSE 0))

\* llm.rs 252-270: the depth loop, from the first '{' of the run with depth 0
RECURSIVE ScanDepth(_, _, _)
ScanDepth(chars, cursor, depth) ==
    IF cursor > Len(chars)
    THEN [depth |-> depth, cursor |-> cursor]
    ELSE IF chars[cursor] = "{"
         THEN ScanDepth(chars, cursor + 1, depth + 1)
         ELSE IF chars[cursor] = "}"
              THEN IF depth - 1 = 0
                   THEN [depth |-> 0, cursor |-> cursor + 1]
                   ELSE ScanDepth(chars, cursor + 1, depth - 1)
              ELSE ScanDepth(chars, cursor + 1, depth)

RECURSIVE StripLoop_KeepsPartial(_, _, _, _, _)
\* as StripLoop, but an unclosed span ends the loop instead of the call: the
\* spans replaced so far are kept
StripLoop_KeepsPartial(chars, replacement, index, result, replaced) ==
    IF index > Len(chars)
    THEN IF replaced THEN Some(result) ELSE None
    ELSE IF ClozePrefixAt(chars, index)
         THEN LET span == ScanDepth(chars, index, 0)
              IN IF span.depth = 0
                 THEN StripLoop_KeepsPartial(chars, replacement, span.cursor,
                                             result \o replacement, TRUE)
                 ELSE IF replaced
                      THEN Some(result \o SubSeq(chars, index, Len(chars)))
                      ELSE None
         ELSE StripLoop_KeepsPartial(chars, replacement, index + 1,
                                     Append(result, chars[index]), replaced)

\* llm.rs 235-288: the outer loop
RECURSIVE StripLoop(_, _, _, _, _)
StripLoop(chars, replacement, index, result, replaced) ==
    IF index > Len(chars)
    THEN IF replaced THEN Some(result) ELSE None
    ELSE IF ClozePrefixAt(chars, index)
         THEN LET span == ScanDepth(chars, index, 0)
              IN IF span.depth = 0
                 THEN StripLoop(chars, replacement, span.cursor,
                                result \o replacement, TRUE)
                 ELSE None
         ELSE StripLoop(chars, replacement, index + 1,
                        Append(result, chars[index]), replaced)

\* as strip_existing_cloze_markup, but a span is replaced by nothing
strip_existing_cloze_markup_DropsSpan(sentence, replacement) ==
    StripLoop(sentence, <<>>, 1, <<>>, FALSE)

\* llm.rs 229-289
strip_existing_cloze_markup(sentence, replacement) ==
    StripLoop(sentence, replacement, 1, <<>>, FALSE)

\* ------------------------------------------------------ advance_by_chars
\* the caller has checked that `start` is a character boundary of `text`
advance_by_chars(text, start, char_count) ==
    LET i == CharIndex(text, start)
        remaining == Len(text) - i + 1
    IN IF char_count >= 1 /\ char_count <= remaining
       THEN ByteOffset(text, i + char_count)
       ELSE ByteLen(text)

\* ------------------------------------------------------- wrap_with_cloze
\* as WrapSlice, but the "}}" is pushed before the matched text
WrapSlice_ClosesFirst(sentence, pos, end) ==
    Slice(sentence, 0, pos) \o ClozeMarker \o ClozeClose
        \o Slice(sentence, pos, end) \o Slice(sentence, end, ByteLen(sentence))

\* the sentence with "{{c1::" spliced in at byte pos and "}}" at byte end
WrapSlice(sentence, pos, end) ==
    Slice(sentence, 0, pos) \o ClozeMarker \o Slice(sentence, pos, end)
        \o ClozeClose \o Slice(sentence, end, ByteLen(sentence))

\* as wrap_with_cloze, but a word that is not found yields the sentence as it
\* is, without a warning
wrap_with_cloze_SilentMiss(sentence, word) ==
    IF contains(sentence, ClozeMarker)
    THEN [res |-> Some(sentence), warned |-> FALSE]
    ELSE IF find(sentence, word) # -1
    THEN LET pos == find(sentence, word)
             end == pos + ByteLen(word)
         IN [res |-> Some(WrapSlice(sentence, pos, end)), warned |-> FALSE]
    ELSE LET lower_sentence == to_lowercase(sentence)
             lower_word == to_lowercase(word)
             pos == find(lower_sentence, lower_word)
         IN IF pos # -1
            THEN IF ~SliceOk(sentence, pos, ByteLen(sentence))
                 THEN [res |-> Panic, warned |-> FALSE]
                 ELSE LET end == advance_by_chars(sentence, pos, Len(word))
                      IN [res |-> Some(WrapSlice(sentence, pos, end)),
                          warned |-> FALSE]
            ELSE [res |-> Some(sentence), warned |-> FALSE]

\* the result of the call and whether it logged the "Could not locate" warning
wrap_with_cloze(sentence, word) ==
    IF contains(sentence, ClozeMarker)
    THEN [res |-> Some(sentence), warned |-> FALSE]
    ELSE IF find(sentence, word) # -1
    THEN LET pos == find(sentence, word)
             end == pos + ByteLen(word)
         IN [res |-> Some(WrapSlice(sentence, pos, end)), warned |-> FALSE]
    ELSE LET lower_sentence == to_lowercase(sentence)
             lower_word == to_lowercase(word)
             pos == find(lower_sentence, lower_word)
         IN IF pos # -1
            THEN IF ~SliceOk(sentence, pos, ByteLen(sentence))
                 THEN [res |-> Panic, warned |-> FALSE]
                 ELSE LET end == advance_by_chars(sentence, pos, Len(word))
                      IN [res |-> Some(WrapSlice(sentence, pos, end)),
                          warned |-> FALSE]
            ELSE [res |-> None, warned |-> TRUE]

\* ------------------------------------------------------ inject_anki_hint
\* as inject_anki_hint, but the hint is spliced in without its "::"
inject_anki_hint_NoSeparator(cloze_sentence, hint_arg) ==
    LET hint == trim(hint_arg)
    IN IF hint = <<>>
       THEN cloze_sentence
       ELSE IF find(cloze_sentence, ClozeMarker) = -1
       THEN cloze_sentence
       ELSE LET start == find(cloze_sentence, ClozeMarker)
                prefix == Slice(cloze_sentence, 0, start + 6)
                rest == Slice(cloze_sentence, start + 6, ByteLen(cloze_sentence))
                end_rel == find(rest, ClozeClose)
            IN IF end_rel = -1
               THEN cloze_sentence
               ELSE LET inside == Slice(rest, 0, end_rel)
                        suffix == Slice(rest, end_rel, ByteLen(rest))
                    IN IF contains(inside, HintSep)
                       THEN cloze_sentence
                       ELSE prefix \o inside \o hint \o suffix

inject_anki_hint(cloze_sentence, hint_arg) ==
    LET hint == trim(hint_arg)
    IN IF hint = <<>>
       THEN cloze_sentence
       ELSE IF find(cloze_sentence, ClozeMarker) = -1
       THEN cloze_sentence
       ELSE LET start == find(cloze_sentence, ClozeMarker)
                prefix == Slice(cloze_sentence, 0, start + 6)
                rest == Slice(cloze_sentence, start + 6, ByteLen(cloze_sentence))
                end_rel == find(rest, ClozeClose)
            IN IF end_rel = -1
               THEN cloze_sentence
               ELSE LET inside == Slice(rest, 0, end_rel)
                        suffix == Slice(rest, end_rel, ByteLen(rest))
                    IN IF contains(inside, HintSep)
                       THEN cloze_sentence
                       ELSE prefix \o inside \o HintSep \o hint \o suffix

\* ===================================================== the state machine
\* One card: generate_english_cloze after the payload is decoded (llm.rs
\* 93-110) and the call of build_cloze_sentence it makes (llm.rs 204-227).
VARIABLES
    pc,              \* position: "parsed", "build", "wrap", "hint", "done", "panicked"
    parsed,          \* the decoded EnglishClozePayload: word, cloze_sentence, hint
    raw_sentence,    \* build_cloze_sentence's argument raw_sentence
    word,            \* its argument word
    hint,            \* its argument hint: None or Some(text)
    original,        \* local `original`
    base_sentence,   \* local `base_sentence`
    normalized,      \* whether strip_existing_cloze_markup returned Some
    cloze_sentence,  \* local `cloze_sentence`, the value returned at "done"
    warnings,        \* the tracing::warn! records of the current call
    call,            \* 1: the call made by generate_english_cloze; 2: a second
                     \* call on the first call's output with the same word
    first,           \* the arguments and the output of call 1, kept for call 2
    json,            \* a call of parse_json: its argument, the text handed to
                     \* the decoder and the result
    scan,            \* a call of strip_existing_cloze_markup on its own
    flow             \* a run of run_hindi_flow or run_english_flow

\* the variables of build_cloze_sentence and its caller
clozeVars == <<pc, parsed, raw_sentence, word, hint, original, base_sentence,
               normalized, cloze_sentence, warnings, call, first>>

vars == <<pc, parsed, raw_sentence, word, hint, original, base_sentence,
          normalized, cloze_sentence, warnings, call, first, json, scan, flow>>

\* the values of the parts of the state that a specification does not run
JsonOff == [pc |-> "off"]
ScanOff == [pc |-> "off"]
FlowOff == [pc |-> "off"]

\* ---------------------------------------------------------------- inputs
\* The payload's sentence is a concatenation of fragments and its word a
\* sequence of characters; the fragments of the sentence and the characters
\* of the word are at most MaxSize together.  Spec draws the sentence from
\* the pieces of the markup and plain characters, SpecSpans from whole spans
\* (closed, hinted, wrongly indexed, unclosed) and plain characters.
Fragments == {
    ClozeMarker,
    <<"{", "{", "c", "2", ":", ":">>,
    ClozeClose,
    HintSep,
    <<"}">>,
    <<"a">>,
    <<"A">>,
    <<"KELVIN">> }

\* whole spans, closed and unclosed, and plain text
SpanFragments == {
    ClozeMarker \o <<"a">> \o ClozeClose,
    ClozeMarker \o <<"a">> \o HintSep \o <<"x">> \o ClozeClose,
    <<"{", "{", "C", "2", "2", ":", ":", "A">> \o ClozeClose,
    ClozeMarker \o <<"a">>,
    <<"{", "{", "c", "2", ":", ":", "a">>,
    <<"a">>,
    <<"A">>,
    <<" ">> }

RECURSIVE Flatten(_)
Flatten(fs) == IF fs = <<>> THEN <<>> ELSE Head(fs) \o Flatten(Tail(fs))

WordChars == {"a", "A", "}", " "}

PayloadHints == {None, Some(<<" ">>), Some(<<" ", "h">>)}

NoCall == [sentence |-> <<>>, hint |-> None, output |-> <<>>]

InitWith(frags) ==
    /\ pc = "parsed"
    /\ \E k \in 0..MaxSize :
         \E n \in 0..(MaxSize - k) :
           \E fs \in [1..k -> frags], w \in [1..n -> WordChars],
              h \in PayloadHints :
               parsed = [word |-> w, cloze_sentence |-> Flatten(fs), hint |-> h]
    /\ raw_sentence = <<>>
    /\ word = <<>>
    /\ hint = None
    /\ original = <<>>
    /\ base_sentence = <<>>
    /\ normalized = FALSE
    /\ cloze_sentence = <<>>
    /\ warnings = <<>>
    /\ call = 1
    /\ first = NoCall
    /\ json = JsonOff
    /\ scan = ScanOff
    /\ flow = FlowOff

Init == InitWith(Fragments)

InitSpans == InitWith(SpanFragments)

\* no card is being generated
ClozeOff ==
    /\ pc = "off"
    /\ parsed = [word |-> <<>>, cloze_sentence |-> <<>>, hint |-> None]
    /\ raw_sentence = <<>>
    /\ word = <<>>
    /\ hint = None
    /\ original = <<>>
    /\ base_sentence = <<>>
    /\ normalized = FALSE
    /\ cloze_sentence = <<>>
    /\ warnings = <<>>
    /\ call = 1
    /\ first = NoCall

\* --------------------------------------------------------------- actions
\* llm.rs 95-102: trim the word, trim the hint and drop an empty one, trim
\* the sentence and call build_cloze_sentence
Generate ==
    /\ pc = "parsed"
    /\ word' = trim(parsed.word)
    /\ hint' = IF parsed.hint.tag = "Some" /\ trim(parsed.hint.val) # <<>>
               THEN Some(trim(parsed.hint.val))
               ELSE None
    /\ raw_sentence' = trim(parsed.cloze_sentence)
    /\ pc' = "build"
    /\ UNCHANGED <<parsed, original, base_sentence, normalized, cloze_sentence,
                   warnings, call, first>>
    /\ UNCHANGED <<json, scan, flow>>

\* llm.rs 205-209
Strip ==
    /\ pc = "build"
    /\ LET trimmed == trim(raw_sentence)
           stripped == strip_existing_cloze_markup(trimmed, word)
       IN /\ original' = trimmed
          /\ normalized' = (stripped.tag = "Some")
          /\ base_sentence' = IF stripped.tag = "Some" THEN stripped.val
                              ELSE trimmed
    /\ pc' = "wrap"
    /\ UNCHANGED <<parsed, raw_sentence, word, hint, cloze_sentence, warnings,
                   call, first>>
    /\ UNCHANGED <<json, scan, flow>>

\* llm.rs 211-220
Wrap ==
    /\ pc = "wrap"
    /\ LET w == wrap_with_cloze(base_sentence, word)
       IN CASE w.res.tag = "Some" ->
                 /\ cloze_sentence' = w.res.val
                 /\ warnings' = warnings
                 /\ pc' = "hint"
            [] w.res.tag = "None" ->
                 /\ cloze_sentence' = original
                 /\ warnings' = warnings \o
                        (IF w.warned THEN <<"Could not locate">> ELSE <<>>)
                        \o <<"Failed to insert cloze markup">>
                 /\ pc' = "hint"
            [] w.res.tag = "Panic" ->
                 /\ cloze_sentence' = cloze_sentence
                 /\ warnings' = warnings
                 /\ pc' = "panicked"
    /\ UNCHANGED <<parsed, raw_sentence, word, hint, original, base_sentence,
                   normalized, call, first>>
    /\ UNCHANGED <<json, scan, flow>>

\* llm.rs 222-226
Hint ==
    /\ pc = "hint"
    /\ cloze_sentence' = IF hint.tag = "Some"
                         THEN inject_anki_hint(cloze_sentence, hint.val)
                         ELSE cloze_sentence
    /\ pc' = "done"
    /\ UNCHANGED <<parsed, raw_sentence, word, hint, original, base_sentence,
                   normalized, warnings, call, first>>
    /\ UNCHANGED <<json, scan, flow>>

\* a second call build_cloze_sentence(output, word, None) on the output of a
\* call that was given no hint
Again ==
    /\ pc = "done"
    /\ call = 1
    /\ hint = None
    /\ first' = [sentence |-> raw_sentence, hint |-> hint,
                 output |-> cloze_sentence]
    /\ raw_sentence' = cloze_sentence
    /\ warnings' = <<>>
    /\ call' = 2
    /\ pc' = "build"
    /\ UNCHANGED <<parsed, word, hint, original, base_sentence, normalized,
                   cloze_sentence>>
    /\ UNCHANGED <<json, scan, flow>>

Next == Generate \/ Strip \/ Wrap \/ Hint \/ Again

Spec == Init /\ [][Next]_vars

SpecSpans == InitSpans /\ [][Next]_vars

TypeOK ==
    /\ pc \in {"off", "parsed", "build", "wrap", "hint", "done", "panicked"}
    /\ call \in {1, 2}
    /\ hint.tag \in {"None", "Some"}
    /\ normalized \in BOOLEAN

\* ============================================================ parse_json
\* The fence delimiter, three backticks; "BACKTICK" stands for U+0060.  "J"
\* stands for the text of a JSON object of the shape the caller expects and
\* "x" for any other character.
Fence == <<"BACKTICK", "BACKTICK", "BACKTICK">>

\* str::starts_with
starts_with(s, pat) == MatchesAt(s, pat, 1)

\* a line that was ended by "\n" loses a "\r" before it
StripCarriageReturn(line) ==
    IF line # <<>> /\ line[Len(line)] = "\r"
    THEN SubSeq(line, 1, Len(line) - 1)
    ELSE line

RECURSIVE LinesFrom(_, _)
LinesFrom(rest, current) ==
    IF rest = <<>>
    THEN IF current = <<>> THEN <<>> ELSE <<current>>
    ELSE IF Head(rest) = "\n"
         THEN <<StripCarriageReturn(current)>> \o LinesFrom(Tail(rest), <<>>)
         ELSE LinesFrom(Tail(rest), Append(current, Head(rest)))

\* str::lines: the lines end at "\n" or "\r\n", the last line need not end
lines(s) == LinesFrom(s, <<>>)

RECURSIVE join(_, _)
\* [&str]::join
join(content, sep) ==
    IF content = <<>> THEN <<>>
    ELSE IF Len(content) = 1 THEN Head(content)
    ELSE Head(content) \o sep \o join(Tail(content), sep)

\* as extract_json_block, but the last line is dropped whatever it is
extract_json_block_DropsLast(raw) ==
    LET all == lines(raw)
    IN IF all = <<>>
       THEN None
       ELSE IF ~starts_with(Head(all), Fence)
       THEN None
       ELSE LET content == Tail(all)
            IN IF content = <<>>
               THEN None
               ELSE Some(join(SubSeq(content, 1, Len(content) - 1), <<"\n">>))

\* llm.rs 183-202
extract_json_block(raw) ==
    LET all == lines(raw)
    IN IF all = <<>>
       THEN None
       ELSE IF ~starts_with(Head(all), Fence)
       THEN None
       ELSE LET content == Tail(all)
            IN IF content = <<>>
               THEN None
               ELSE IF starts_with(trim(content[Len(content)]), Fence)
               THEN Some(join(SubSeq(content, 1, Len(content) - 1), <<"\n">>))
               ELSE Some(join(content, <<"\n">>))

\* llm.rs 173-178: the text that parse_json hands to serde_json::from_str
JsonToDecode(raw) ==
    LET trimmed == trim(raw)
    IN IF starts_with(trimmed, Fence)
       THEN LET block == extract_json_block(trimmed)
            IN IF block.tag = "Some" THEN block.val ELSE trimmed
       ELSE trimmed

\* serde_json::from_str succeeds on the JSON object, which white space may
\* surround, and on nothing else
DecodesOk(text) == trim(text) = <<"J">>

NoError == [context |-> "", payload |-> <<>>]

\* as DecodeError, but the message carries the text cut at its first line end
DecodeError_FirstLine(text) ==
    [context |-> "failed to parse JSON payload",
     payload |-> IF lines(text) = <<>> THEN <<>> ELSE Head(lines(text))]

\* llm.rs 180: the error of a failed decoding, with its context message
DecodeError(text) ==
    [context |-> "failed to parse JSON payload", payload |-> text]

RawFragments == {Fence, <<"\n">>, <<"\r">>, <<" ">>, <<"J">>, <<"x">>}

InitJson ==
    /\ ClozeOff
    /\ scan = ScanOff
    /\ flow = FlowOff
    /\ \E k \in 0..MaxRaw :
         \E fs \in [1..k -> RawFragments] :
            json = [pc |-> "called", raw |-> Flatten(fs), handed |-> <<>>,
                    result |-> "none", error |-> NoError]

\* llm.rs 173-178
ExtractJson ==
    /\ json.pc = "called"
    /\ json' = [json EXCEPT !.pc = "extracted",
                            !.handed = JsonToDecode(json.raw)]
    /\ UNCHANGED <<clozeVars, scan, flow>>

\* llm.rs 180
DecodeJson ==
    /\ json.pc = "extracted"
    /\ json' = IF DecodesOk(json.handed)
               THEN [json EXCEPT !.pc = "returned", !.result = "ok"]
               ELSE [json EXCEPT !.pc = "returned", !.result = "err",
                                 !.error = DecodeError(json.handed)]
    /\ UNCHANGED <<clozeVars, scan, flow>>

NextJson == ExtractJson \/ DecodeJson

SpecJson == InitJson /\ [][NextJson]_vars

\* =========================================== strip_existing_cloze_markup
\* A call of strip_existing_cloze_markup on its own, one iteration of its
\* outer loop at a time.  `closed` records the position of the '}' that
\* closed each span.  The sentence is a concatenation of at most MaxScan
\* fragments: single characters and two opening runs with their prefix.
ScanFragments == {
    <<"{">>, <<"}">>, <<"c">>, <<"1">>, <<":">>, <<"a">>,
    <<"{", "c", ":", ":">>,
    <<"{", "{", "C", "1", "2", ":", ":">> }

Replacements == {<<>>, <<"w">>}

InitScan ==
    /\ ClozeOff
    /\ json = JsonOff
    /\ flow = FlowOff
    /\ \E k \in 0..MaxScan :
         \E fs \in [1..k -> ScanFragments], r \in Replacements :
            scan = [pc |-> "scanning", chars |-> Flatten(fs), replacement |-> r,
                    index |-> 1, result |-> <<>>, replaced |-> FALSE,
                    closed |-> <<>>, ret |-> None]

\* llm.rs 284-285: the character at index is not the start of a span
ScanCopy ==
    /\ scan.pc = "scanning"
    /\ scan.index <= Len(scan.chars)
    /\ ~ClozePrefixAt(scan.chars, scan.index)
    /\ scan' = [scan EXCEPT !.result = Append(@, scan.chars[scan.index]),
                            !.index = @ + 1]
    /\ UNCHANGED <<clozeVars, json, flow>>

\* llm.rs 236-280: a span starts at index; it is replaced when it closes,
\* and the call returns None when it does not
ScanSpan ==
    /\ scan.pc = "scanning"
    /\ scan.index <= Len(scan.chars)
    /\ ClozePrefixAt(scan.chars, scan.index)
    /\ LET span == ScanDepth(scan.chars, scan.index, 0)
       IN IF span.depth = 0
          THEN scan' = [scan EXCEPT !.result = @ \o scan.replacement,
                                    !.index = span.cursor,
                                    !.replaced = TRUE,
                                    !.closed = Append(@, span.cursor - 1)]
          ELSE scan' = [scan EXCEPT !.pc = "aborted", !.ret = None]
    /\ UNCHANGED <<clozeVars, json, flow>>

\* llm.rs 288
ScanReturn ==
    /\ scan.pc = "scanning"
    /\ scan.index > Len(scan.chars)
    /\ scan' = [scan EXCEPT !.pc = "returned",
                            !.ret = IF scan.replaced THEN Some(scan.result)
                                    ELSE None]
    /\ UNCHANGED <<clozeVars, json, flow>>

NextScan == ScanCopy \/ ScanSpan \/ ScanReturn

SpecScan == InitScan /\ [][NextScan]_vars

\* ================================== run_hindi_flow and run_english_flow
\* A run of one of the two flows.  The calls to AnkiConnect, to the model
\* and to the terminal are recorded in `log` in the order they are made;
\* what they answer is chosen by the environment.
FlowWords == {<<"a">>, <<"A">>, <<"b">>, <<" ">>}

Languages == {"hindi", "english"}

NoFlowError == [kind |-> "none", word |-> <<>>]

Event(op, w, n) == [op |-> op, word |-> w, notes |-> n]

\* workflows.rs 285-291: the words trimmed, the empty ones dropped
RECURSIVE normalize_words(_)
normalize_words(words) ==
    IF words = <<>> THEN <<>>
    ELSE IF trim(Head(words)) = <<>>
         THEN normalize_words(Tail(words))
         ELSE <<trim(Head(words))>> \o normalize_words(Tail(words))

\* workflows.rs 59 and 119: build_hindi_notes builds two notes,
\* build_english_note one
NotesFor(lang) == IF lang = "hindi" THEN 2 ELSE 1

InitFlow ==
    /\ ClozeOff
    /\ json = JsonOff
    /\ scan = ScanOff
    /\ \E k \in 0..MaxWords :
         \E ws \in [1..k -> FlowWords], l \in Languages,
            d \in BOOLEAN, a \in BOOLEAN :
            flow = [pc |-> "ensure", lang |-> l, dry_run |-> d,
                    auto_approve |-> a, input |-> ws, words |-> <<>>,
                    next |-> 1, seen |-> {}, word |-> <<>>, log |-> <<>>,
                    result |-> "running", error |-> NoFlowError]

\* the flow returns Err: the `?` of the failing call
Fail(kind, w, events) ==
    flow' = [flow EXCEPT !.pc = "done", !.result = "err",
                         !.error = [kind |-> kind, word |-> w],
                         !.log = @ \o events]

\* workflows.rs 24-31 and 84-91, anki.rs 21-42: createDeck is posted; an
\* error that says the deck exists counts as success, any other error ends
\* the flow
EnsureDeck ==
    /\ flow.pc = "ensure"
    /\ \E answer \in {"created", "exists", "error"} :
          IF answer = "error"
          THEN Fail("deck", <<>>, <<Event("createDeck", <<>>, 0)>>)
          ELSE flow' = [flow EXCEPT !.pc = "loop",
                                    !.words = normalize_words(flow.input),
                                    !.log = Append(@, Event("createDeck", <<>>, 0))]
    /\ UNCHANGED <<clozeVars, json, scan>>

\* workflows.rs 31-36 and 91-96: a word whose lower-cased form was seen
SkipDuplicate ==
    /\ flow.pc = "loop"
    /\ flow.next <= Len(flow.words)
    /\ to_lowercase(flow.words[flow.next]) \in flow.seen
    /\ flow' = [flow EXCEPT !.next = @ + 1]
    /\ UNCHANGED <<clozeVars, json, scan>>

\* workflows.rs 31-33 and 91-93: the next word, not seen before
TakeWord ==
    /\ flow.pc = "loop"
    /\ flow.next <= Len(flow.words)
    /\ to_lowercase(flow.words[flow.next]) \notin flow.seen
    /\ flow' = [flow EXCEPT !.pc = "generate",
                            !.word = flow.words[flow.next],
                            !.seen = @ \cup {to_lowercase(flow.words[flow.next])},
                            !.next = @ + 1]
    /\ UNCHANGED <<clozeVars, json, scan>>

\* workflows.rs 38-43 and 98-103: generate_hindi_card or
\* generate_english_cloze; the request may fail (llm.rs 56-59, 88-91) and so
\* may parse_json on the answer (llm.rs 61, 93); either error is propagated
GenerateCard ==
    /\ flow.pc = "generate"
    /\ \E answer \in {"card", "http_error", "payload_error"} :
          CASE answer = "card" ->
                 flow' = [flow EXCEPT !.pc = "card",
                              !.log = Append(@, Event("generate", flow.word, 0))]
            [] answer = "http_error" ->
                 Fail("http", flow.word, <<Event("generate", flow.word, 0)>>)
            [] answer = "payload_error" ->
                 Fail("payload", flow.word,
                      <<Event("generate", flow.word, 0),
                        Event("payload_error", flow.word, 0)>>)
    /\ UNCHANGED <<clozeVars, json, scan>>

\* workflows.rs 45-48 and 105-108
DryRunPrint ==
    /\ flow.pc = "card"
    /\ flow.dry_run
    /\ flow' = [flow EXCEPT !.pc = "loop",
                            !.log = Append(@, Event("print", flow.word, 0))]
    /\ UNCHANGED <<clozeVars, json, scan>>

\* as Confirm, but the note is sent whatever the answer
Confirm_IgnoresAnswer ==
    /\ flow.pc = "card"
    /\ ~flow.dry_run
    /\ ~flow.auto_approve
    /\ \E answer \in {"yes", "no", "error"} :
          CASE answer = "yes" ->
                 flow' = [flow EXCEPT !.pc = "add",
                              !.log = Append(@, Event("approved", flow.word, 0))]
            [] answer = "no" ->
                 flow' = [flow EXCEPT !.pc = "add",
                              !.log = Append(@, Event("declined", flow.word, 0))]
            [] answer = "error" ->
                 Fail("prompt", flow.word, <<>>)
    /\ UNCHANGED <<clozeVars, json, scan>>

\* workflows.rs 50-57 and 110-117: the card is shown and the user asked
Confirm ==
    /\ flow.pc = "card"
    /\ ~flow.dry_run
    /\ ~flow.auto_approve
    /\ \E answer \in {"yes", "no", "error"} :
          CASE answer = "yes" ->
                 flow' = [flow EXCEPT !.pc = "add",
                              !.log = Append(@, Event("approved", flow.word, 0))]
            [] answer = "no" ->
                 flow' = [flow EXCEPT !.pc = "loop",
                              !.log = Append(@, Event("declined", flow.word, 0))]
            [] answer = "error" ->
                 Fail("prompt", flow.word, <<>>)
    /\ UNCHANGED <<clozeVars, json, scan>>

\* workflows.rs 50 and 110: with auto_approve nobody is asked
AutoApprove ==
    /\ flow.pc = "card"
    /\ ~flow.dry_run
    /\ flow.auto_approve
    /\ flow' = [flow EXCEPT !.pc = "add"]
    /\ UNCHANGED <<clozeVars, json, scan>>

\* workflows.rs 59-66 and 119-126, anki.rs 44-67: addNotes is posted
AddNotes ==
    /\ flow.pc = "add"
    /\ \E answer \in {"added", "error"} :
          IF answer = "error"
          THEN Fail("anki", flow.word,
                    <<Event("addNotes", flow.word, NotesFor(flow.lang))>>)
          ELSE flow' = [flow EXCEPT !.pc = "loop",
                            !.log = Append(@, Event("addNotes", flow.word,
                                                    NotesFor(flow.lang)))]
    /\ UNCHANGED <<clozeVars, json, scan>>

\* workflows.rs 69-76 and 129-136: after the last word the deck name is
\* saved unless in a dry run; a failure to save is only logged
Finish ==
    /\ flow.pc = "loop"
    /\ flow.next > Len(flow.words)
    /\ flow' = [flow EXCEPT !.pc = "done", !.result = "ok",
                    !.log = IF flow.dry_run THEN @
                            ELSE Append(@, Event("saveDeck", <<>>, 0))]
    /\ UNCHANGED <<clozeVars, json, scan>>

NextFlow ==
    \/ EnsureDeck
    \/ SkipDuplicate
    \/ TakeWord
    \/ GenerateCard
    \/ DryRunPrint
    \/ Confirm
    \/ AutoApprove
    \/ AddNotes
    \/ Finish

SpecFlow == InitFlow /\ [][NextFlow]_vars

\* ============================================================ properties
\* ------------------------------------------------ reading a sentence back
\* the character indices at which pat occurs in s
Occurrences(s, pat) == {i \in 1..(Len(s) + 1) : MatchesAt(s, pat, i)}

CountOf(s, pat) == Cardinality(Occurrences(s, pat))

FirstOccurrence(s, pat) ==
    CHOOSE i \in Occurrences(s, pat) : \A m \in Occurrences(s, pat) : i <= m

\* the text after the first "{{c1::" of s
AfterMarker(s) ==
    SubSeq(s, FirstOccurrence(s, ClozeMarker) + Len(ClozeMarker), Len(s))

\* s has a "{{c1::" with a "}}" after it
HasSpan(s) ==
    /\ contains(s, ClozeMarker)
    /\ contains(AfterMarker(s), ClozeClose)

\* the text between the first "{{c1::" and the next "}}" after it
Interior(s) ==
    SubSeq(AfterMarker(s), 1, FirstOccurrence(AfterMarker(s), ClozeClose) - 1)

\* the hint of a span's interior: the text after its first "::"
HintPart(inside) ==
    SubSeq(inside, FirstOccurrence(inside, HintSep) + Len(HintSep), Len(inside))

Braces(s) == {i \in 1..Len(s) : s[i] \in {"{", "}"}}

\* s is pre ++ "{{c1::" ++ inside ++ "}}" ++ post with no other brace
SingleSpan(s, inside) ==
    /\ contains(s, ClozeMarker \o inside \o ClozeClose)
    /\ Cardinality(Braces(s)) = 4

\* a call of build_cloze_sentence has returned
Returned == pc = "done"

\* ------------------------------------------------------------------- C1
\* C1: when the sentence holds a well-formed span {{c1::answer::existing}}
\* and a non-empty hint is supplied, the returned sentence's span still
\* carries the hint `existing`.
C1_ExistingHintKept ==
    (/\ Returned /\ call = 1
     /\ hint.tag = "Some"
     /\ HasSpan(raw_sentence)
     /\ SingleSpan(raw_sentence, Interior(raw_sentence))
     /\ contains(Interior(raw_sentence), HintSep))
    => /\ HasSpan(cloze_sentence)
       /\ contains(Interior(cloze_sentence), HintSep)
       /\ HintPart(Interior(cloze_sentence)) = HintPart(Interior(raw_sentence))

\* ------------------------------------------------------------------- C2
\* C2: a second call on the output of a call without hint, with the same
\* word and no hint, returns that output again.
C2_Idempotent ==
    (Returned /\ call = 2) => cloze_sentence = first.output

\* ------------------------------------------------------------------- C3
C3_Case ==
    /\ Returned /\ call = 1
    /\ hint = None
    /\ ~contains(raw_sentence, ClozeMarker)
    /\ contains(raw_sentence, word)

C3_OneSpanOfWord ==
    /\ CountOf(cloze_sentence, ClozeMarker) = 1
    /\ HasSpan(cloze_sentence)
    /\ Interior(cloze_sentence) = word

ClosesAtEnd(w) == FirstOccurrence(w \o ClozeClose, ClozeClose) = Len(w) + 1

C4_WrappedUnchanged ==
    (/\ Returned /\ call = 1
     /\ hint = None
     /\ Braces(word) = {}
     /\ SingleSpan(raw_sentence, word))
    => cloze_sentence = raw_sentence

\* ------------------------------------------------------------------- C5
C5_Case ==
    /\ Returned /\ call = 1
    /\ hint.tag = "Some"
    /\ Braces(word) = {}
    /\ ~contains(word, HintSep)
    /\ SingleSpan(raw_sentence, word)

FallbackCase ==
    /\ pc \in {"done", "panicked"} /\ call = 1
    /\ hint = None
    /\ \A i \in 1..Len(raw_sentence) : raw_sentence[i] # "{"
    /\ ~contains(raw_sentence, word)
    /\ contains(to_lowercase(raw_sentence), to_lowercase(word))

\* the sentence with the characters i .. i+n-1 wrapped
WrappedAt(s, i, n) ==
    SubSeq(s, 1, i - 1) \o ClozeMarker \o SubSeq(s, i, i + n - 1)
        \o ClozeClose \o SubSeq(s, i + n, Len(s))

\* C6: on the case-insensitive fallback the output is the sentence with the
\* matched region wrapped, in the sentence's own case, and every other
\* character verbatim.
C6_FallbackWrapsMatch ==
    FallbackCase =>
        /\ Returned
        /\ \E i \in 1..Len(raw_sentence) :
              /\ MatchesAt(to_lowercase(raw_sentence), to_lowercase(word), i)
              /\ cloze_sentence = WrappedAt(raw_sentence, i, Len(word))

\* C7: with a multi-byte character before the match, the fallback does not
\* panic and the wrapped span has as many scalar values as the word and is
\* the region that matched.
C7_MultiByteSafe ==
    (/\ FallbackCase
     /\ \E i \in 1..Len(raw_sentence) :
           /\ len_utf8(raw_sentence[i]) > 1
           /\ \A m \in Occurrences(to_lowercase(raw_sentence), to_lowercase(word)) :
                 i < m)
    => /\ pc # "panicked"
       /\ HasSpan(cloze_sentence)
       /\ Len(Interior(cloze_sentence)) = Len(word)
       /\ to_lowercase(Interior(cloze_sentence)) = to_lowercase(word)

\* ------------------------------------------------------------------- C8
\* the sentence has no start of a cloze span
NoClozeMarkup(s) == \A i \in 1..Len(s) : ~ClozePrefixAt(s, i)

C8_Case ==
    /\ pc \in {"hint", "done", "panicked"} /\ call = 1
    /\ NoClozeMarkup(raw_sentence)
    /\ ~contains(raw_sentence, word)
    /\ ~contains(to_lowercase(raw_sentence), to_lowercase(word))

\* C8: a word that occurs in a sentence without cloze markup neither exactly
\* nor case-insensitively: the call returns the sentence unchanged, whatever
\* the hint, having logged a warning, and does not panic.
C8_UnmatchedUnchanged ==
    C8_Case =>
        /\ pc # "panicked"
        /\ cloze_sentence = raw_sentence
        /\ "Could not locate" \in {warnings[i] : i \in 1..Len(warnings)}
        /\ "Failed to insert cloze markup" \in {warnings[i] : i \in 1..Len(warnings)}

C8_Witness ==
    /\ C8_Case /\ Returned
    /\ hint = Some(<<"h">>)
    /\ word = <<"a">>
    /\ raw_sentence = <<"KELVIN", "}">>
    /\ cloze_sentence = raw_sentence
    /\ Len(warnings) = 2

\* ----------------------------------------------------------- C9 and C10
\* a cloze span starts at p: m >= 1 braces '{', then 'c' or 'C', then d >= 0
\* digits, then "::"
SpanStartAt(s, p) ==
    /\ s[p] = "{"
    /\ \E m \in 1..(Len(s) - p) :
          /\ s[p + m] \in {"c", "C"}
          /\ \A i \in p..(p + m - 1) : s[i] = "{"
          /\ \E d \in 0..(Len(s) - p - m - 2) :
                /\ s[p + m + d + 1] = ":"
                /\ s[p + m + d + 2] = ":"
                /\ \A i \in (p + m + 1)..(p + m + d) : is_ascii_digit(s[i])

RECURSIVE DepthAfter(_, _, _)
\* the brace depth after the characters p..q: '{' counts +1 and '}' -1
DepthAfter(s, p, q) ==
    IF q < p THEN 0
    ELSE DepthAfter(s, p, q - 1)
            + (IF s[q] = "{" THEN 1 ELSE IF s[q] = "}" THEN -1 ELSE 0)

Depth(s, p, q) == DepthAfter(s, p, q)

\* a span starts at p and its depth never returns to zero
UnclosedAt(s, p) ==
    /\ SpanStartAt(s, p)
    /\ \A q \in p..Len(s) : s[q] = "}" => Depth(s, p, q) # 0

HasUnclosedSpan(s) == \E p \in 1..Len(s) : UnclosedAt(s, p)

\* a span that starts at p and is closed at q, before an unclosed one
HasClosedThenUnclosed(s) ==
    \E p \in 1..Len(s) : \E q \in p..Len(s) :
        /\ SpanStartAt(s, p)
        /\ Depth(s, p, q) = 0
        /\ \A r \in p..(q - 1) : Depth(s, p, r) > 0
        /\ \E u \in (q + 1)..Len(s) : UnclosedAt(s, u)

\* strip_existing_cloze_markup has returned and wrap_with_cloze is to be called
AfterStrip == pc = "wrap"

\* C9: when a span of the sentence is opened and never closed, the sentence
\* given to wrap_with_cloze is the whole original sentence, also when
\* earlier spans of it were closed.
C9_NoPartialRewrite ==
    (AfterStrip /\ HasUnclosedSpan(original))
    => /\ base_sentence = original
       /\ ~normalized

C9_Witness ==
    /\ pc = "wrap" /\ call = 1
    /\ word = <<"A">>
    /\ HasClosedThenUnclosed(original)
    /\ original = ClozeMarker \o <<"a">> \o ClozeClose \o <<" ">>
                      \o ClozeMarker \o <<"a">>
    /\ base_sentence = original

\* C10: a sentence with an unclosed span is wrapped as plain text: the call
\* does not panic; a word that occurs in it verbatim ends up wrapped at its
\* first occurrence, and a word that occurs in it neither exactly nor
\* case-insensitively takes the wrap-failure path with its warnings.
C10_UnclosedWrappedAsPlain ==
    (/\ pc \in {"done", "panicked"} /\ call = 1
     /\ hint = None
     /\ HasUnclosedSpan(raw_sentence))
    => /\ Returned
       /\ contains(raw_sentence, word) =>
              cloze_sentence = WrappedAt(raw_sentence,
                                         FirstOccurrence(raw_sentence, word),
                                         Len(word))
       /\ ~contains(to_lowercase(raw_sentence), to_lowercase(word)) =>
              /\ cloze_sentence = raw_sentence
              /\ warnings # <<>>

\* ------------------------------------------------------------------ C11
\* C11: the string returned by build_cloze_sentence either holds exactly one
\* "{{c1::" with a "}}" after it, and a "::" hint in it when a hint was
\* supplied, or it holds no "{{c1::", equals the trimmed input sentence and a
\* warning was logged during the call.
C11_OutputGuarantee ==
    (Returned /\ call = 1) =>
        \/ /\ CountOf(cloze_sentence, ClozeMarker) = 1
           /\ HasSpan(cloze_sentence)
           /\ hint.tag = "Some" => contains(Interior(cloze_sentence), HintSep)
        \/ /\ ~contains(cloze_sentence, ClozeMarker)
           /\ cloze_sentence = trim(raw_sentence)
           /\ warnings # <<>>

\* ------------------------------------------------------------------ C12
\* the diagnostics of wrap failure
WrapFailureWarnings == {"Could not locate", "Failed to insert cloze markup"}

\* C12: when normalization is aborted because a span opens and never
\* closes, the call uses the unmodified sentence and logs a diagnostic, other
\* than those of wrap failure, that says that normalization was skipped.
C12_SkippedNormalizationLogged ==
    (Returned /\ call = 1 /\ HasUnclosedSpan(original)) =>
        /\ base_sentence = original
        /\ \E i \in 1..Len(warnings) : warnings[i] \notin WrapFailureWarnings

\* ------------------------------------------------------------------ C14
\* the positions of the line ends of a text
NewlinesOf(t) == {i \in 1..Len(t) : t[i] = "\n"}

FirstNewline(t) == CHOOSE i \in NewlinesOf(t) : \A m \in NewlinesOf(t) : i <= m

LastNewline(t) == CHOOSE i \in NewlinesOf(t) : \A m \in NewlinesOf(t) : m <= i

RECURSIVE WithoutCarriageReturns(_)
\* a text with every "\r\n" read as "\n"
WithoutCarriageReturns(t) ==
    IF t = <<>> THEN <<>>
    ELSE IF Len(t) >= 2 /\ t[1] = "\r" /\ t[2] = "\n"
         THEN WithoutCarriageReturns(Tail(t))
         ELSE <<Head(t)>> \o WithoutCarriageReturns(Tail(t))

\* the lines after the first line of a trimmed text that has several lines,
\* joined with "\n", without the last line when that line, indentation
\* aside, begins with a fence
LinesAfterFirst(t) ==
    LET lastLine == SubSeq(t, LastNewline(t) + 1, Len(t))
    IN IF starts_with(trim(lastLine), Fence)
       THEN LET between == WithoutCarriageReturns(
                               SubSeq(t, FirstNewline(t) + 1, LastNewline(t)))
            IN SubSeq(between, 1, Len(between) - 1)
       ELSE WithoutCarriageReturns(SubSeq(t, FirstNewline(t) + 1, Len(t)))

\* a trimmed text whose first line begins with a fence and is not its last
FencedBlock(t) == starts_with(t, Fence) /\ NewlinesOf(t) # {}

\* C14: the text handed to the decoder is the trimmed text when its first
\* line does not begin with three backticks; when it does and a line follows,
\* it is the lines after the first joined with "\n", the last line dropped
\* exactly when it begins, after its indentation, with three backticks.
C14_ExtractedText ==
    json.pc \in {"extracted", "returned"} =>
        LET t == trim(json.raw)
        IN /\ ~starts_with(t, Fence) => json.handed = t
           /\ FencedBlock(t) => json.handed = LinesAfterFirst(t)

C14_Witness ==
    /\ json.pc = "returned"
    /\ json.raw = Fence \o <<"x", "\n", "J", "\n">> \o Fence
    /\ json.handed = <<"J">>
    /\ json.result = "ok"

\* ------------------------------------------------------------------ C15
\* C15: for a text that is an opening fence line with nothing after it, no
\* JSON text is extracted: parse_json fails with a "missing payload" error
\* and does not hand the fence line to the decoder.
C15_EmptyFenceMissingPayload ==
    (/\ json.pc = "returned"
     /\ starts_with(trim(json.raw), Fence)
     /\ NewlinesOf(trim(json.raw)) = {})
    => /\ json.result = "err"
       /\ json.error.context = "missing payload"
       /\ json.handed # trim(json.raw)

\* ------------------------------------------------------------------ C16
\* C16: an error of parse_json carries exactly the text that was handed to
\* the decoder: the lines inside the fence for a fenced block, the trimmed
\* text for a text without fence.
C16_ErrorCarriesDecodedText ==
    (json.pc = "returned" /\ json.result = "err") =>
        LET t == trim(json.raw)
        IN /\ json.error.payload = json.handed
           /\ FencedBlock(t) => json.error.payload = LinesAfterFirst(t)
           /\ ~starts_with(t, Fence) => json.error.payload = t

C16_Witness ==
    /\ json.pc = "returned"
    /\ json.raw = <<" ">> \o Fence \o <<"\n", "x", "\n", "J">>
    /\ json.result = "err"
    /\ json.error.payload = <<"x", "\n", "J">>

\* ------------------------------------------------------------------ C18
\* the span that starts at p closes at q: q is the first position where the
\* brace depth counted from p is back to zero
ClosesAt(s, p, q) ==
    /\ s[q] = "}"
    /\ Depth(s, p, q) = 0
    /\ \A r \in p..(q - 1) : s[r] = "}" => Depth(s, p, r) # 0

\* a closed span starts at p
ClosedSpanAt(s, p) ==
    SpanStartAt(s, p) /\ \E q \in p..Len(s) : ClosesAt(s, p, q)

\* position i lies inside a closed span that starts before it
InsideSpan(s, i) ==
    \E p \in 1..(i - 1) :
        SpanStartAt(s, p) /\ \E q \in i..Len(s) : ClosesAt(s, p, q)

RECURSIVE SpansReplaced(_, _, _)
\* the sentence from position i on, every closed span replaced by w and
\* every character outside the spans kept
SpansReplaced(s, w, i) ==
    IF i > Len(s) THEN <<>>
    ELSE (IF InsideSpan(s, i) THEN <<>>
          ELSE IF ClosedSpanAt(s, i) THEN w
          ELSE <<s[i]>>) \o SpansReplaced(s, w, i + 1)

\* the sentence that build_cloze_sentence takes from a returned call
ScanBase == IF scan.ret.tag = "Some" THEN scan.ret.val ELSE scan.chars

\* C18: for a sentence all of whose span starts close,
\* strip_existing_cloze_markup yields the sentence with every span, from the
\* first '{' of its run to the '}' that brings the depth back to zero,
\* replaced by the word and everything else copied; without any span it
\* returns None and the base sentence is the sentence itself.
C18_ClosedSpansReplaced ==
    (scan.pc \in {"returned", "aborted"} /\ ~HasUnclosedSpan(scan.chars))
    => /\ scan.pc = "returned"
       /\ ScanBase = SpansReplaced(scan.chars, scan.replacement, 1)
       /\ (\A p \in 1..Len(scan.chars) : ~SpanStartAt(scan.chars, p))
              => (scan.ret = None /\ ScanBase = scan.chars)

C18_Witness ==
    /\ scan.pc = "returned"
    /\ scan.chars = <<"{", "c", ":", ":", "{", "}", "}", "{">>
    /\ scan.replacement = <<"w">>
    /\ scan.ret = Some(<<"w", "{">>)

\* ------------------------------------------------------------------ C19
\* The machine of the specification: depth 0 is Scanning, depth d > 0 is
\* InSpan(d).  Scanning enters InSpan(1) on a '{' at which a cloze prefix
\* starts; InSpan(d) goes to InSpan(d + 1) on '{' and to InSpan(d - 1) on
\* '}', which closes the span when d = 1.
RECURSIVE MachineRun(_, _, _, _, _)
\* the machine's state after the characters i..n of s, from depth d
MachineRun(s, i, n, d, closed) ==
    IF i > n
    THEN [depth |-> d, closed |-> closed]
    ELSE IF d = 0
         THEN MachineRun(s, i + 1, n, IF SpanStartAt(s, i) THEN 1 ELSE 0, closed)
         ELSE IF s[i] = "{"
              THEN MachineRun(s, i + 1, n, d + 1, closed)
              ELSE IF s[i] = "}"
                   THEN MachineRun(s, i + 1, n, d - 1,
                                   IF d = 1 THEN Append(closed, i) ELSE closed)
                   ELSE MachineRun(s, i + 1, n, d, closed)

Machine(s, n) == MachineRun(s, 1, n, 0, <<>>)

\* C19: the scanner of the code and the machine agree: between two
\* iterations of the outer loop the machine, having read the same characters,
\* is Scanning and has closed the same spans at the same positions; the code
\* returns None for an unclosed span exactly when the machine ends the input
\* inside a span, and otherwise both have closed the same spans.
C19_ScannerRefinesMachine ==
    /\ scan.pc = "scanning" =>
           Machine(scan.chars, scan.index - 1)
               = [depth |-> 0, closed |-> scan.closed]
    /\ scan.pc \in {"returned", "aborted"} =>
           LET m == Machine(scan.chars, Len(scan.chars))
           IN /\ m.closed = scan.closed
              /\ (scan.pc = "aborted") <=> (m.depth > 0)

C19_Witness ==
    /\ scan.pc = "aborted"
    /\ scan.chars = <<"{", "{", "C", "1", "2", ":", ":", "}", "}",
                      "{", "c", ":", ":">>
    /\ scan.closed = <<9>>
    /\ Machine(scan.chars, Len(scan.chars)).depth = 1

\* ------------------------------------------------------------------ C20
\* build_cloze_sentence took the wrap-failure path
WrapFailed ==
    \E i \in 1..Len(warnings) : warnings[i] = "Failed to insert cloze markup"

\* C20: when wrap_with_cloze fails, the sentence returned, the trimmed
\* input, is the base sentence of strip_existing_cloze_markup; and when
\* strip_existing_cloze_markup replaced a span, wrap_with_cloze does not fail.
C20_FailureReturnsBase ==
    /\ (pc \in {"hint", "done"} /\ WrapFailed)
           => /\ cloze_sentence = base_sentence
              /\ cloze_sentence = trim(raw_sentence)
    /\ (pc \in {"hint", "done"} /\ normalized) => ~WrapFailed
    /\ (pc = "wrap" /\ normalized)
           => wrap_with_cloze(base_sentence, word).res.tag = "Some"

C20_Witness ==
    /\ pc = "done" /\ call = 1
    /\ WrapFailed
    /\ word = <<"}">>
    /\ raw_sentence = <<"{", "{", "c", "2", ":", ":", "a">>
    /\ cloze_sentence = raw_sentence
    /\ base_sentence = raw_sentence

\* strip_existing_cloze_markup replaced a span and wrap_with_cloze wrapped
\* the word it put there
C20_WitnessReplaced ==
    /\ pc = "done" /\ call = 1
    /\ normalized
    /\ ~WrapFailed
    /\ original = <<"{", "{", "c", "2", ":", ":", "A", "}", "}">>
    /\ word = <<"a">>
    /\ cloze_sentence = ClozeMarker \o <<"a">> \o ClozeClose

\* ------------------------------------------------------------------ C13
\* the positions in the log of the events `op` for word w
EventsOf(op, w) ==
    {i \in 1..Len(flow.log) : flow.log[i].op = op /\ flow.log[i].word = w}

\* the word at position j of the list is the first with its lower-cased form
FirstOfItsKey(ws, j) ==
    \A i \in 1..(j - 1) : to_lowercase(ws[i]) # to_lowercase(ws[j])

\* C13: when the payload of a word cannot be decoded, only that word is
\* abandoned: the flow does not end with that error, and, no other call
\* having failed, every later distinct word is sent to generation.
C13_PayloadFailureIsolated ==
    (flow.pc = "done" /\ \E i \in 1..Len(flow.log) :
                              flow.log[i].op = "payload_error")
    => /\ flow.error.kind # "payload"
       /\ flow.result = "ok" =>
             \A j \in 1..Len(flow.words) :
                 FirstOfItsKey(flow.words, j)
                     => EventsOf("generate", flow.words[j]) # {}

\* ------------------------------------------------------------------ C17
\* C17: add_notes is called for a word only when dry_run is false and
\* auto_approve is true or the user answered yes for that word before; in a
\* dry run nothing is sent; a declined word gets no note, and the words after
\* it are still generated when no call fails.
C17_NotesOnlyWhenAllowed ==
    /\ flow.pc # "off"
    /\ \A i \in 1..Len(flow.log) :
          flow.log[i].op = "addNotes" =>
              /\ ~flow.dry_run
              /\ \/ flow.auto_approve
                 \/ \E k \in 1..(i - 1) :
                       flow.log[k] = Event("approved", flow.log[i].word, 0)
              /\ EventsOf("declined", flow.log[i].word) = {}
    /\ flow.pc = "add" =>
          /\ ~flow.dry_run
          /\ flow.auto_approve \/ EventsOf("approved", flow.word) # {}
    /\ (flow.pc = "done" /\ flow.result = "ok") =>
          \A j \in 1..Len(flow.words) :
              FirstOfItsKey(flow.words, j)
                  => EventsOf("generate", flow.words[j]) # {}

\* the first word was declined and the second one sent
C17_Witness ==
    /\ flow.pc = "done" /\ flow.result = "ok"
    /\ ~flow.dry_run /\ ~flow.auto_approve
    /\ flow.words = <<<<"a">>, <<"b">>>>
    /\ EventsOf("declined", <<"a">>) # {}
    /\ EventsOf("addNotes", <<"a">>) = {}
    /\ EventsOf("approved", <<"b">>) # {}
    /\ EventsOf("addNotes", <<"b">>) # {}

\* a dry run over two words: both generated and printed, nothing sent
C17_WitnessDryRun ==
    /\ flow.pc = "done" /\ flow.result = "ok"
    /\ flow.dry_run
    /\ flow.words = <<<<"a">>, <<"b">>>>
    /\ EventsOf("print", <<"b">>) # {}
    /\ \A i \in 1..Len(flow.log) : flow.log[i].op # "addNotes"

\* ------------------------------------------------------------------ C21
\* the requests that change the state of Anki or of the config file
StateChanging == {"createDeck", "addNotes", "saveDeck"}

\* C21: a dry run has no external side effect: with dry_run true the flow
\* posts neither createDeck nor addNotes to AnkiConnect and does not save
\* the deck name to the config file.
C21_DryRunNoSideEffects ==
    (flow.pc # "off" /\ flow.dry_run)
    => \A i \in 1..Len(flow.log) : flow.log[i].op \notin StateChanging

====
